---------------------------- MODULE Spec2Model ----------------------------
(***************************************************************************)
(* A model of style-crawler (src/crawler.js, src/config.js).               *)
(*                                                                         *)
(* Strings are sequences of atoms.  An atom is a one-character string, or  *)
(* a word (a run of characters that no operation of the program looks      *)
(* inside: a simple selector such as "#header", the extension ".png").     *)
(* Url strings are spelled character by character, because the scheme      *)
(* pattern of buildUrlFileName looks at single characters.                 *)
(*                                                                         *)
(* Lengths (rectangles, scroll offsets) are integers counting half pixels, *)
(* so that Math.floor and parseInt are not the identity; their results are *)
(* whole pixels.                                                           *)
(***************************************************************************)
EXTENDS Integers, Sequences, FiniteSets, TLC

(***************************************************************************)
(* Bounds of the model.                                                    *)
(***************************************************************************)
\* the catalog of a run is the first MaxTags selector groups of config.tags
MaxTags == 2
\* the catalog handed to the in-page functions called on their own
MaxFnTags == 3
\* number of elements after the body of a document handed to them
MaxDom == 2
\* number of characters after the scheme of an enumerated url
MaxUrlLen == 4
\* atoms after the first word of the selector groups buildTagSafe is called on
MaxGroupLen == 4

\* null and undefined; every value that may be null is a record
Null == [type |-> "null"]
Undefined == [type |-> "undefined"]

Min(a, b) == IF a < b THEN a ELSE b

(***************************************************************************)
(* config.js                                                               *)
(***************************************************************************)
tags ==
    << <<"body">>,
       <<"header", ",", " ", "#header", ",", " ", "#hd", ",", " ", ".header">>,
       <<"nav", ",", " ", "#nav", ",", " ", ".main_nav", ",", " ", ".main--nav",
         ",", " ", ".nav">>,
       <<"section">>,
       <<"content">>,
       <<"footer", ",", " ", "#footer", ",", " ", ".footer">>,
       <<"main", ",", " ", "#main", ",", " ", "[role=main]", ",", " ", ".main">> >>

props ==
    << "background-color", "background-image", "background-repeat", "box-shadow",
       "color", "font-family", "font-size", "font-weight", "line-height",
       "text-transform", "text-shadow" >>

\* the catalog the model runs over: a prefix of config.tags
Catalog == SubSeq(tags, 1, Min(MaxTags, Len(tags)))

N == Len(Catalog)

(***************************************************************************)
(* String primitives of the language, on atom sequences.                   *)
(***************************************************************************)
\* index of the first atom of s equal to a, 0 when there is none
IndexOf(s, a) ==
    IF \E i \in 1..Len(s) : s[i] = a
    THEN CHOOSE i \in 1..Len(s) : s[i] = a /\ \A j \in 1..(i - 1) : s[j] # a
    ELSE 0

\* String.prototype.split(sep): the pieces of s between the atoms equal to sep
RECURSIVE Split(_, _)
Split(s, sep) ==
    LET i == IndexOf(s, sep)
    IN  IF i = 0 THEN << s >>
        ELSE << SubSeq(s, 1, i - 1) >> \o Split(SubSeq(s, i + 1, Len(s)), sep)

\* String.prototype.replace(a, b) with a string pattern: the first a only
ReplaceFirst(s, a, b) ==
    LET i == IndexOf(s, a)
    IN  IF i = 0 THEN s ELSE [s EXCEPT ![i] = b]

\* String.prototype.replace(/a/g, b): every a
ReplaceAll(s, a, b) == [i \in 1..Len(s) |-> IF s[i] = a THEN b ELSE s[i]]

\* whether pattern p occurs in s at position i
MatchAt(s, p, i) ==
    /\ i + Len(p) - 1 <= Len(s)
    /\ \A k \in 1..Len(p) : s[i + k - 1] = p[k]

(***************************************************************************)
(* buildTagSafe (crawler.js 23-26)                                         *)
(***************************************************************************)
\* a buildTagSafe that does not look at its tag
buildTagSafe_Fixed(tag) == << "region" >>

buildTagSafe(tag) == ReplaceFirst(Split(tag, ",")[1], " ", "-")

(***************************************************************************)
(* buildUrlFileName (crawler.js 38-50)                                     *)
(***************************************************************************)
Http == <<"h", "t", "t", "p", ":", "/", "/">>
Https == <<"h", "t", "t", "p", "s", ":", "/", "/">>

\* url.replace( /https?:\/\//, '' ): the leftmost match is removed; at one
\* position the pattern matches either spelling, never both
StripScheme(url) ==
    LET hits == {i \in 1..Len(url) : MatchAt(url, Http, i) \/ MatchAt(url, Https, i)}
    IN  IF hits = {} THEN url
        ELSE LET i == CHOOSE h \in hits : \A g \in hits : h <= g
                 n == IF MatchAt(url, Https, i) THEN Len(Https) ELSE Len(Http)
             IN  SubSeq(url, 1, i - 1) \o SubSeq(url, i + n, Len(url))

buildUrlFileName(u) ==
    LET url == ReplaceAll(StripScheme(u), "/", "-")
        urlLength == Len(url)
    IN  IF urlLength > 0 /\ url[urlLength] = "-"
        THEN SubSeq(url, 1, urlLength - 1)
        ELSE url

(***************************************************************************)
(* The page.  A document is the sequence of its elements in document       *)
(* order.  An element is a record:                                         *)
(*   matches  the simple selectors the element satisfies                   *)
(*   visible  what the injected isVisible( el ) answers for it             *)
(*   left, top, width, height   its border box in page coordinates         *)
(*   padding  its computed padding-left/right/top/bottom                   *)
(*   style    its computed style, a function on props                      *)
(* A computed length is a record [num, unit]: num half pixels, unit "px".  *)
(***************************************************************************)
Px(h) == [num |-> h, unit |-> "px"]

\* parseInt( '2.5px' ) = 2: the leading integer, truncated towards zero
parseInt(v) == IF v.num >= 0 THEN v.num \div 2 ELSE -((-v.num) \div 2)

\* Math.floor of a length in half pixels, in whole pixels
floor(h) == h \div 2

\* leading and trailing white space of a selector is not part of it
RECURSIVE Trim(_)
Trim(s) ==
    IF s = << >> THEN s
    ELSE IF Head(s) = " " THEN Trim(Tail(s))
    ELSE IF s[Len(s)] = " " THEN Trim(SubSeq(s, 1, Len(s) - 1))
    ELSE s

\* the selectors of a selector list, in list order
ParseSelectorList(tag) ==
    LET pieces == Split(tag, ",")
    IN  [i \in DOMAIN pieces |-> Trim(pieces[i])]

\* the selector lists of the catalog's groups, parsed once
selectorLists == [t \in {tags[i] : i \in DOMAIN tags} |-> ParseSelectorList(t)]

SelectorList(tag) ==
    IF tag \in DOMAIN selectorLists THEN selectorLists[tag] ELSE ParseSelectorList(tag)

\* the catalog's selectors are simple selectors: one word each
MatchesSelector(el, sel) == Len(sel) = 1 /\ sel[1] \in el.matches

MatchesGroup(el, tag) ==
    LET list == SelectorList(tag)
    IN  \E k \in DOMAIN list : MatchesSelector(el, list[k])

\* document.querySelectorAll( tag ): the matching elements' positions in
\* document order
RECURSIVE FilterIdx(_, _, _)
FilterIdx(doc, tag, i) ==
    IF i > Len(doc) THEN << >>
    ELSE (IF MatchesGroup(doc[i], tag) THEN << i >> ELSE << >>)
         \o FilterIdx(doc, tag, i + 1)

querySelectorAll(doc, tag) == FilterIdx(doc, tag, 1)

\* a querySelector that looks for the first selector of the list only
querySelector_FirstSelector(doc, tag) ==
    LET els == querySelectorAll(doc, Split(tag, ",")[1])
    IN  IF els = << >> THEN 0 ELSE els[1]

\* document.querySelector( tag ): the first of them, 0 for null
querySelector(doc, tag) ==
    LET els == querySelectorAll(doc, tag)
    IN  IF els = << >> THEN 0 ELSE els[1]

\* el.getBoundingClientRect(): the border box relative to the viewport
getBoundingClientRect(el, scroll) ==
    [left |-> el.left - scroll.x, top |-> el.top - scroll.y,
     width |-> el.width, height |-> el.height]

(***************************************************************************)
(* getBoundingRectangle (crawler.js 85-156), evaluated in a page           *)
(*   page = [doc, amd, scroll]; amd: the page defines an AMD loader        *)
(***************************************************************************)
\* checkVisible (97-113): a boolean, or a promise when the page has define.amd
checkVisible(page, el) ==
    IF page.amd THEN [type |-> "promise"]
    ELSE [type |-> "boolean", val |-> el.visible]

\* the truth value the conditional operator gives a value: a boolean is
\* itself, null and undefined are falsy, any object (a promise) is truthy
Truthy(v) ==
    IF v.type = "boolean" THEN v.val ELSE v.type \notin {"null", "undefined"}

\* the loop of lines 116-131: the position of the element left in el, 0 when
\* el ends up null or undefined
resolveElement(page, tag) ==
    LET els == querySelectorAll(page.doc, tag)
        ok == {i \in 1..Len(els) : Truthy(checkVisible(page, page.doc[els[i]]))}
    IN  IF ok = {} THEN 0
        ELSE els[CHOOSE i \in ok : \A j \in ok : i <= j]

\* a getBoundingRectangle that forgets padding-right
getBoundingRectangle_NoPaddingRight(page, tag) ==
    LET e == resolveElement(page, tag)
    IN  IF e = 0 THEN Null
        ELSE LET el == page.doc[e]
                 rect == getBoundingClientRect(el, page.scroll)
                 paddedWidth == rect.width + 2 * parseInt(el.padding.left)
                 paddedHeight == rect.height + 2 * parseInt(el.padding.top)
                                             + 2 * parseInt(el.padding.bottom)
             IN  [x |-> floor(rect.left), y |-> floor(rect.top),
                  width |-> floor(paddedWidth), height |-> floor(paddedHeight)]

getBoundingRectangle(page, tag) ==
    LET e == resolveElement(page, tag)
    IN  IF e = 0 THEN Null
        ELSE LET el == page.doc[e]
                 rect == getBoundingClientRect(el, page.scroll)
                 paddedWidth == rect.width + 2 * parseInt(el.padding.left)
                                           + 2 * parseInt(el.padding.right)
                 paddedHeight == rect.height + 2 * parseInt(el.padding.top)
                                             + 2 * parseInt(el.padding.bottom)
             IN  [x |-> floor(rect.left), y |-> floor(rect.top),
                  width |-> floor(paddedWidth), height |-> floor(paddedHeight)]

(***************************************************************************)
(* Objects with string keys, in insertion order: a sequence of             *)
(* <<key, value>> pairs with no key twice.                                 *)
(***************************************************************************)
Keys(obj) == [i \in DOMAIN obj |-> obj[i][1]]

HasKey(obj, k) == \E i \in DOMAIN obj : obj[i][1] = k

Get(obj, k) == obj[CHOOSE i \in DOMAIN obj : obj[i][1] = k][2]

\* obj[ k ] = v: a new key is appended, an old key keeps its place
Put(obj, k, v) ==
    IF HasKey(obj, k)
    THEN [i \in DOMAIN obj |-> IF obj[i][1] = k THEN <<k, v>> ELSE obj[i]]
    ELSE Append(obj, <<k, v>>)

(***************************************************************************)
(* scrapeStyles (crawler.js 338-361), evaluated in a page                  *)
(***************************************************************************)
RECURSIVE scrapeFrom(_, _, _, _)
scrapeFrom(doc, cfg, i, style) ==
    IF i > Len(cfg.tags) THEN style
    ELSE LET tag == cfg.tags[i]
             _tag == querySelector(doc, tag)
         IN  IF _tag # 0
             THEN scrapeFrom(doc, cfg, i + 1,
                     Put(style, tag,
                         [k \in DOMAIN cfg.props |->
                             <<cfg.props[k], doc[_tag].style[cfg.props[k]]>>]))
             ELSE scrapeFrom(doc, cfg, i + 1, style)

\* a scrapeStyles that records a region whether or not it matched
RECURSIVE scrapeAllFrom(_, _, _, _)
scrapeAllFrom(doc, cfg, i, style) ==
    IF i > Len(cfg.tags) THEN style
    ELSE LET tag == cfg.tags[i]
             _tag == querySelector(doc, tag)
         IN  scrapeAllFrom(doc, cfg, i + 1,
                Put(style, tag,
                    IF _tag = 0 THEN << >>
                    ELSE [k \in DOMAIN cfg.props |->
                            <<cfg.props[k], doc[_tag].style[cfg.props[k]]>>]))

scrapeStyles_RecordAll(doc, cfg) == scrapeAllFrom(doc, cfg, 1, << >>)

scrapeStyles(doc, cfg) == scrapeFrom(doc, cfg, 1, << >>)

config == [tags |-> Catalog, props |-> props]

\* JSON.stringify( obj ): the object's text, its keys in insertion order.
\* The values of the objects written are strings and arrays, never undefined,
\* so no key is left out.
JSONstringify(obj) == [json |-> obj]

(***************************************************************************)
(* The run (crawler.js 445-450): its url, directory and screenshot paths.  *)
(***************************************************************************)
\* process.argv[ 2 ] of the modelled run: http://a/
url == Http \o <<"a", "/">>

urlFileName == buildUrlFileName(url)

screenshotDir == <<".", "/", "data", "/">> \o urlFileName

\* screenshotDir + '/' + tagSafe + '.png' (crawler.js 181, 255)
PathOf(tagSafe) == screenshotDir \o <<"/">> \o tagSafe \o <<".png">>

Paths == {PathOf(buildTagSafe(Catalog[i])) : i \in 1..N}

\* buildTagSafe( tag ) and the path made of it, for each tag of the catalog
\* (crawler.js 173, 181, 254, 255)
tagSafeOf == [t \in {config.tags[i] : i \in 1..N} |-> buildTagSafe(t)]

pathOf == [t \in {config.tags[i] : i \in 1..N} |-> PathOf(tagSafeOf[t])]

filterArray(e) == Truthy(e)

(***************************************************************************)
(* State.                                                                  *)
(***************************************************************************)
VARIABLES
    site,       \* the site at the url: [regions, amd, overflow]
    files,      \* the run directory: path -> "none", "zero", "old" or "new"
                \* ("old": an image of an earlier run, "new": one of this run)
    created,    \* the paths this run's screenshots wrote
    captured,   \* path -> the area of the page its screenshot shows, in half pixels
    pending,    \* the operations in flight on the screenshot session
    awaited,    \* the in-flight operations getScreenshot's second then waits for
    scroll,     \* scroll offset of the screenshot session, in half pixels
    viewport,   \* its viewport, in whole pixels
    seq,        \* the sequencing promise of promiseScreenshots
    calls,      \* the calls on the screenshot session and their completions
    task,       \* the fan-out promises, one per catalog entry
    values,     \* the values Promise.all has collected
    settled,    \* the catalog positions of the fan-out promises, as they resolved
    unlinks,    \* paths whose fs.unlink is in flight
    colorsJson, \* colors.json
    sampler,    \* the style session: [pc, style]
    cssJson,    \* css.json
    fn, arg, ret, picked  \* a call of a pure function: name, input, output

runVars == <<site, files, created, captured, pending, awaited, scroll, viewport, seq, calls,
             task, values, settled, unlinks, colorsJson, sampler, cssJson>>
fnVars == <<fn, arg, ret, picked>>
vars == <<runVars, fnVars>>

(***************************************************************************)
(* The pages the run is checked on.  Every document starts with its body;  *)
(* each further catalog region has no element, a hidden one or a visible   *)
(* one.  A region's element satisfies the last selector of its group.      *)
(***************************************************************************)
PlainStyle == [p \in {props[k] : k \in DOMAIN props} |->
                 IF p = "background-image" THEN "none" ELSE "plain"]

HeroStyle == [p \in {props[k] : k \in DOMAIN props} |->
                 IF p = "background-color" THEN "rgba(0, 0, 0, 0)"
                 ELSE IF p = "background-image" THEN "url(hero.png)" ELSE "hero"]

NoPadding == [left |-> Px(0), right |-> Px(0), top |-> Px(0), bottom |-> Px(0)]

LastSelector(tag) ==
    LET list == SelectorList(tag)
    IN  list[Len(list)][1]

\* the element of catalog region i (1-based) on the run's pages: the regions
\* after the body are stacked from 100px down, 100px high each, inside a
\* body 1024.5px wide
RegionElement(i, vis) ==
    [matches |-> {LastSelector(Catalog[i])}, visible |-> vis,
     left |-> 0, top |-> IF i = 1 THEN 0 ELSE 200 * (i - 1), width |-> 2049,
     height |-> IF i = 1 THEN 200 * N + 1 ELSE 200,
     padding |-> NoPadding, style |-> IF i = 1 THEN PlainStyle ELSE HeroStyle]

RegionStates == {"absent", "hidden", "visible"}

RECURSIVE DocFrom(_, _)
DocFrom(st, i) ==
    IF i > N THEN << >>
    ELSE (IF st[i] = "absent" THEN << >>
          ELSE << RegionElement(i, st[i] = "visible") >>) \o DocFrom(st, i + 1)

\* a site is told by its regions' states, by whether it has an AMD loader
\* and by whether its content overflows its body.  The sites with an AMD
\* loader are those with a hidden element (the loader changes nothing for
\* the others); the sites whose content overflows have every region visible
\* and no loader.
RegionChoices == {f \in [1..N -> RegionStates] : f[1] # "absent"}

Sites ==
    {[regions |-> st, amd |-> FALSE, overflow |-> FALSE] : st \in RegionChoices}
    \cup
    {[regions |-> st, amd |-> TRUE, overflow |-> FALSE] :
        st \in {f \in RegionChoices : \E i \in 1..N : f[i] = "hidden"}}
    \cup
    {[regions |-> [i \in 1..N |-> "visible"], amd |-> FALSE, overflow |-> TRUE]}

\* the document the sessions load from a site.  The body holds its content,
\* or, on a site that overflows, has the height of the first 100px of it
\* (a body of fixed height, as with html, body { height: 100% })
Document(s) ==
    LET doc == DocFrom(s.regions, 1)
    IN  IF s.overflow THEN [doc EXCEPT ![1].height = 201] ELSE doc

\* the run directory before the run: empty, or left by an earlier run of the
\* same url that captured every region, with content or without
Directories == {[p \in Paths |-> f] : f \in {"none", "zero", "old"}}

(***************************************************************************)
(* Initial state: init() has created the directory and started both        *)
(* pipelines (crawler.js 208-220, 294-308).                                *)
(***************************************************************************)
Op(name, count, rect) == [op |-> name, count |-> count, rect |-> rect]

Call(o, ev) == [op |-> o.op, count |-> o.count, ev |-> ev]

FnIdle ==
    /\ fn = "none"
    /\ arg = Null
    /\ ret = Null
    /\ picked = 0

RunInit ==
    /\ created = {}
    /\ captured = [p \in Paths |-> Null]
    /\ pending = {Op("goto", -1, Null)}
    /\ awaited = {}
    /\ scroll = [x |-> 0, y |-> 0]
    /\ viewport = Null
    /\ seq = "pending"
    /\ calls = << Call(Op("goto", -1, Null), "issue") >>
    /\ task = [i \in 1..N |-> "none"]
    /\ values = [i \in 1..N |-> Undefined]
    /\ settled = << >>
    /\ unlinks = {}
    /\ colorsJson = Null
    /\ sampler = [pc |-> "goto", style |-> Null]
    /\ cssJson = Null

Init ==
    /\ site \in Sites
    /\ files \in Directories
    /\ RunInit
    /\ FnIdle

(***************************************************************************)
(* The screenshot session (crawler.js 170-198, 294-325).  An operation of  *)
(* the session is in flight from the moment the session starts it until    *)
(* the action that models its completion and the handlers run by it.       *)
(***************************************************************************)
Range(q) == {q[i] : i \in DOMAIN q}

Max(a, b) == IF a > b THEN a ELSE b

Issues(q) == [i \in DOMAIN q |-> Call(q[i], "issue")]

\* an operation o completes; the handlers it runs start the operations next
Completes(o, next) ==
    /\ pending' = (pending \ {o}) \cup Range(next)
    /\ calls' = (calls \o << Call(o, "done") >>) \o Issues(next)

\* the chrome allowance added to the body's height (crawler.js 312)
ChromeAllowance == 22

\* goto done: the session goes on to evaluate the body's rectangle (300-308)
GotoDone ==
    \E o \in pending :
        /\ o.op = "goto"
        /\ Completes(o, << Op("bodyRect", -1, Null) >>)
        /\ UNCHANGED <<site, files, created, captured, awaited, scroll, viewport, seq, task,
                       values, settled, unlinks, colorsJson, sampler, cssJson, fnVars>>

\* a viewport of the body's size, without the allowance
bodyViewport_NoAllowance(bodyRect) ==
    [width |-> parseInt([num |-> bodyRect.width, unit |-> ""]),
     height |-> parseInt([num |-> bodyRect.height, unit |-> ""])]

\* the then of 309-316, on the body's rectangle
bodyViewport(bodyRect) ==
    [width |-> parseInt([num |-> bodyRect.width, unit |-> ""]),
     height |-> parseInt([num |-> bodyRect.height, unit |-> ""]) + ChromeAllowance]

BodyRectDone ==
    \E o \in pending :
        /\ o.op = "bodyRect"
        /\ LET bodyRect == getBoundingClientRect(Document(site)[1], scroll)
           IN  Completes(o, << Op("viewport", -1, bodyViewport(bodyRect)) >>)
        /\ UNCHANGED <<site, files, created, captured, awaited, scroll, viewport, seq, task,
                       values, settled, unlinks, colorsJson, sampler, cssJson, fnVars>>

ViewportDone ==
    \E o \in pending :
        /\ o.op = "viewport"
        /\ viewport' = o.rect
        /\ Completes(o, << Op("wait", -1, Null) >>)
        /\ UNCHANGED <<site, files, created, captured, awaited, scroll, seq, task,
                       values, settled, unlinks, colorsJson, sampler, cssJson, fnVars>>

WaitDone ==
    \E o \in pending :
        /\ o.op = "wait"
        /\ Completes(o, << Op("inject", -1, Null) >>)
        /\ UNCHANGED <<site, files, created, captured, awaited, scroll, viewport, seq, task,
                       values, settled, unlinks, colorsJson, sampler, cssJson, fnVars>>

\* getScreenshot( count, ... ) up to its evaluate (170-175)
getScreenshot(count) == << Op("evaluate", count, Null) >>

\* inject done: the then of 315 calls getScreenshot( 0, ... )
InjectDone ==
    \E o \in pending :
        /\ o.op = "inject"
        /\ Completes(o, getScreenshot(0))
        /\ UNCHANGED <<site, files, created, captured, awaited, scroll, viewport, seq, task,
                       values, settled, unlinks, colorsJson, sampler, cssJson, fnVars>>

\* the first then of getScreenshot (176-186): the operations it starts, and
\* whether it returns them, so that the second then waits for them
onRect_NoReturn(count, rect) ==
    [issued |-> IF rect # Null THEN << Op("scrollTo", count, rect) >> ELSE << >>,
     returned |-> FALSE]

onRect(count, rect) ==
    [issued |-> IF rect # Null THEN << Op("scrollTo", count, rect) >> ELSE << >>,
     returned |-> rect # Null]

\* a second then that ends the session one region early
advance_OffByOne(count) ==
    IF count = Len(config.tags) - 2
    THEN << Op("end", count, Null) >>
    ELSE getScreenshot(count + 1)

\* the second then of getScreenshot (187-197)
advance(count) ==
    IF count = Len(config.tags) - 1
    THEN << Op("end", count, Null) >>
    ELSE getScreenshot(count + 1)

EvaluateDone ==
    \E o \in pending :
        /\ o.op = "evaluate"
        /\ LET tag == config.tags[o.count + 1]
               rect == getBoundingRectangle(
                           [doc |-> Document(site), amd |-> site.amd, scroll |-> scroll], tag)
               h == onRect(o.count, rect)
           IN  /\ Completes(o, h.issued \o (IF h.returned THEN << >> ELSE advance(o.count)))
               /\ awaited' = IF h.returned THEN awaited \cup {o.count} ELSE awaited
        /\ UNCHANGED <<site, files, created, captured, scroll, viewport, seq, task,
                       values, settled, unlinks, colorsJson, sampler, cssJson, fnVars>>

\* the extent of the page, in half pixels
PageExtent(doc) ==
    [x |-> CHOOSE m \in {doc[i].left + doc[i].width : i \in DOMAIN doc} :
              \A i \in DOMAIN doc : doc[i].left + doc[i].width <= m,
     y |-> CHOOSE m \in {doc[i].top + doc[i].height : i \in DOMAIN doc} :
              \A i \in DOMAIN doc : doc[i].top + doc[i].height <= m]

\* window.scrollTo: the offset asked for, kept within what the page can scroll
scrollTo(top, left) ==
    [x |-> Max(0, Min(2 * left, PageExtent(Document(site)).x - 2 * viewport.width)),
     y |-> Max(0, Min(2 * top, PageExtent(Document(site)).y - 2 * viewport.height))]

\* scrollTo( rect.y, rect.x ) done: the chain goes on to the screenshot (183-184)
ScrollToDone ==
    \E o \in pending :
        /\ o.op = "scrollTo"
        /\ scroll' = scrollTo(o.rect.y, o.rect.x)
        /\ Completes(o, << Op("screenshot", o.count, o.rect) >>)
        /\ UNCHANGED <<site, files, created, captured, awaited, viewport, seq, task,
                       values, settled, unlinks, colorsJson, sampler, cssJson, fnVars>>

\* the area of the page a screenshot clipped to rect shows: the clip is in
\* viewport coordinates, the page is scrolled by scroll
capturePage(rect) ==
    [type |-> "area", x |-> 2 * rect.x + scroll.x, y |-> 2 * rect.y + scroll.y,
     width |-> 2 * rect.width, height |-> 2 * rect.height]

\* screenshot( path, rect ) done: the file is written, with or without content
ScreenshotDone ==
    \E o \in pending, size \in {"new", "zero"} :
        /\ o.op = "screenshot"
        /\ LET path == PathOf(buildTagSafe(config.tags[o.count + 1]))
           IN  /\ files' = [files EXCEPT ![path] = size]
               /\ created' = created \cup {path}
               /\ captured' = [captured EXCEPT ![path] = capturePage(o.rect)]
        /\ Completes(o, IF o.count \in awaited THEN advance(o.count) ELSE << >>)
        /\ awaited' = awaited \ {o.count}
        /\ UNCHANGED <<site, scroll, viewport, seq, task,
                       values, settled, unlinks, colorsJson, sampler, cssJson, fnVars>>

\* end done: _resolve( _nightmare.end() ) settles the sequencing promise (191)
EndDone ==
    \E o \in pending :
        /\ o.op = "end"
        /\ seq' = "resolved"
        /\ Completes(o, << >>)
        /\ UNCHANGED <<site, files, created, captured, awaited, scroll, viewport, task,
                       values, settled, unlinks, colorsJson, sampler, cssJson, fnVars>>

\* an operation of the session fails.  Neither chain has a rejection handler
\* and the executor of 296 never calls reject: the handlers after the failed
\* operation are skipped.  Only the end handed to _resolve rejects the
\* sequencing promise.
BrowserFail ==
    \E o \in pending :
        /\ pending' = {}
        /\ awaited' = {}
        /\ calls' = Append(calls, Call(o, "error"))
        /\ seq' = IF o.op = "end" THEN "rejected" ELSE seq
        /\ UNCHANGED <<site, files, created, captured, scroll, viewport, task,
                       values, settled, unlinks, colorsJson, sampler, cssJson, fnVars>>

(***************************************************************************)
(* The color extraction fan-out (crawler.js 230-284, 400-409).             *)
(***************************************************************************)
\* the outer then of promiseScreenshots (318-323): promiseAllRelevantColors
\* maps every tag to a promise, whose executor stats the tag's file
promiseAllRelevantColors_NoWait ==
    /\ \A i \in 1..N : task[i] = "none"
    /\ task' = [i \in 1..N |-> "stat"]
    /\ UNCHANGED <<site, files, created, captured, pending, awaited, scroll, viewport, seq,
                   calls, values, settled, unlinks, colorsJson, sampler, cssJson, fnVars>>

promiseAllRelevantColors ==
    /\ seq = "resolved"
    /\ \A i \in 1..N : task[i] = "none"
    /\ task' = [i \in 1..N |-> "stat"]
    /\ UNCHANGED <<site, files, created, captured, pending, awaited, scroll, viewport, seq,
                   calls, values, settled, unlinks, colorsJson, sampler, cssJson, fnVars>>

\* what fs.stat hands its callback for a file
StatOf(f) ==
    IF f = "none" THEN [err |-> [type |-> "object", code |-> "ENOENT"],
                        stats |-> Undefined]
    ELSE [err |-> Null,
          stats |-> [type |-> "object", size |-> IF f = "zero" THEN 0 ELSE 1]]

\* the branch the callback of fs.stat takes (259-281)
onStat_NoZeroBranch(err, stats) ==
    IF ~Truthy(err) /\ Truthy(stats) /\ stats.size >= 0 THEN "getColors"
    ELSE "null"

onStat_NoElse(err, stats) ==
    IF ~Truthy(err) /\ Truthy(stats) /\ stats.size > 0 THEN "getColors"
    ELSE IF Truthy(stats) /\ stats.size = 0 THEN "unlink"
    ELSE "none"

onStat(err, stats) ==
    IF ~Truthy(err) /\ Truthy(stats) /\ stats.size > 0 THEN "getColors"
    ELSE IF Truthy(stats) /\ stats.size = 0 THEN "unlink"
    ELSE "null"

\* Promise.all keeps the value of the i-th promise at index i
PromiseAllCollect_CompletionOrder(vals, i, v) ==
    LET free == {k \in DOMAIN vals : vals[k] = Undefined}
        k == CHOOSE m \in free : \A j \in free : m <= j
    IN  [vals EXCEPT ![k] = v]

PromiseAllCollect(vals, i, v) == [vals EXCEPT ![i] = v]

StatDone ==
    \E i \in 1..N :
        /\ task[i] = "stat"
        /\ LET path == pathOf[config.tags[i]]
               st == StatOf(files[path])
               branch == onStat(st.err, st.stats)
               resolves == branch \in {"unlink", "null"}
           IN  /\ task' = [task EXCEPT ![i] = IF branch = "getColors" THEN "getColors"
                                               ELSE IF resolves THEN "resolved"
                                               ELSE "unsettled"]
               /\ values' = IF resolves THEN PromiseAllCollect(values, i, Null)
                            ELSE values
               /\ settled' = IF resolves THEN Append(settled, i) ELSE settled
               /\ unlinks' = IF branch = "unlink" THEN unlinks \cup {path} ELSE unlinks
        /\ UNCHANGED <<site, files, created, captured, pending, awaited, scroll, viewport, seq,
                       calls, colorsJson, sampler, cssJson, fnVars>>

\* fs.unlink( path ) done
UnlinkDone ==
    \E path \in unlinks :
        /\ unlinks' = unlinks \ {path}
        /\ files' = [files EXCEPT ![path] = "none"]
        /\ UNCHANGED <<site, created, captured, pending, awaited, scroll, viewport, seq,
                       calls, task, values, settled, colorsJson, sampler, cssJson, fnVars>>

\* the swatches get-image-colors finds in an image
Swatches(f) ==
    IF f = "new" THEN << [r |-> 255, g |-> 255, b |-> 255], [r |-> 0, g |-> 0, b |-> 0] >>
    ELSE << [r |-> 128, g |-> 128, b |-> 128] >>

rgb(c) == << c.r, c.g, c.b >>

\* the callback of getColors (261-270): with colors it resolves the promise,
\* without it does nothing
onColors_ResolveNull(tagSafe, _colors) ==
    IF Truthy(_colors)
    THEN [settles |-> TRUE,
          value |-> [type |-> "object", tag |-> tagSafe, colors |-> _colors.list]]
    ELSE [settles |-> TRUE, value |-> Null]

onColors(tagSafe, _colors) ==
    IF Truthy(_colors)
    THEN [settles |-> TRUE,
          value |-> [type |-> "object", tag |-> tagSafe, colors |-> _colors.list]]
    ELSE [settles |-> FALSE, value |-> Undefined]

\* getColors calls back, with colors or without: a promise the callback does
\* not resolve is left pending ("hung")
GetColorsDone ==
    \E i \in 1..N, data \in BOOLEAN :
        /\ task[i] = "getColors"
        /\ LET tagSafe == tagSafeOf[config.tags[i]]
               _colors == IF data THEN [type |-> "object",
                                        list |-> Swatches(files[pathOf[config.tags[i]]])]
                          ELSE Undefined
               cb == onColors(tagSafe, _colors)
           IN  IF cb.settles
               THEN /\ task' = [task EXCEPT ![i] = "resolved"]
                    /\ values' = PromiseAllCollect(values, i, cb.value)
                    /\ settled' = Append(settled, i)
               ELSE /\ task' = [task EXCEPT ![i] = "hung"]
                    /\ UNCHANGED <<values, settled>>
        /\ UNCHANGED <<site, files, created, captured, pending, awaited, scroll, viewport, seq,
                       calls, unlinks, colorsJson, sampler, cssJson, fnVars>>

\* res.filter( filterArray ) (234)
RECURSIVE SelectSeqFrom(_, _)
SelectSeqFrom(res, i) ==
    IF i > Len(res) THEN << >>
    ELSE (IF filterArray(res[i]) THEN << res[i] >> ELSE << >>) \o SelectSeqFrom(res, i + 1)

filter(res) == SelectSeqFrom(res, 1)

\* writeRelavantColorsJSON (400-409): the object handed to writeJson
RECURSIVE colorsFrom(_, _, _)
colorsFrom(colors, i, _colors) ==
    IF i > Len(colors) THEN _colors
    ELSE colorsFrom(colors, i + 1,
            Put(_colors, colors[i].tag,
                [k \in DOMAIN colors[i].colors |-> rgb(colors[i].colors[k])]))

writeRelavantColorsJSON(colors) == colorsFrom(colors, 1, << >>)

\* writeJson (375-388) up to its fs.writeFile
writeJson(obj) == [st |-> "writing", text |-> JSONstringify(obj)]

\* every promise has resolved: the then of Promise.all (232-236)
promiseAllThen ==
    /\ \A i \in 1..N : task[i] = "resolved"
    /\ colorsJson = Null
    /\ colorsJson' = writeJson(writeRelavantColorsJSON(filter(values)))
    /\ UNCHANGED <<site, files, created, captured, pending, awaited, scroll, viewport, seq,
                   calls, task, values, settled, unlinks, sampler, cssJson, fnVars>>

\* the callback of fs.writeFile for colors.json (377-387)
WriteColorsDone ==
    \E err \in BOOLEAN :
        /\ colorsJson # Null
        /\ colorsJson.st = "writing"
        /\ colorsJson' = [colorsJson EXCEPT !.st = IF err THEN "error" ELSE "written"]
        /\ UNCHANGED <<site, files, created, captured, pending, awaited, scroll, viewport, seq,
                       calls, task, values, settled, unlinks, sampler, cssJson, fnVars>>

(***************************************************************************)
(* The style session (crawler.js 215-219, 338-361, 421-439).               *)
(***************************************************************************)
\* what evaluate( scrapeStyles, config ) returns on the page of each site
styleOf == [s \in Sites |-> scrapeStyles(Document(s), config)]

SamplerGotoDone ==
    /\ sampler.pc = "goto"
    /\ sampler' = [sampler EXCEPT !.pc = "evaluate"]
    /\ UNCHANGED <<site, files, created, captured, pending, awaited, scroll, viewport, seq,
                   calls, task, values, settled, unlinks, colorsJson, cssJson, fnVars>>

SamplerEvaluateDone ==
    /\ sampler.pc = "evaluate"
    /\ sampler' = [pc |-> "end", style |-> [type |-> "object",
                                             obj |-> styleOf[site]]]
    /\ UNCHANGED <<site, files, created, captured, pending, awaited, scroll, viewport, seq,
                   calls, task, values, settled, unlinks, colorsJson, cssJson, fnVars>>

\* a style session whose then waits for the sequencing promise as well
SamplerEndDone_AfterSequencing ==
    /\ seq = "resolved"
    /\ sampler.pc = "end"
    /\ sampler' = [sampler EXCEPT !.pc = "done"]
    /\ cssJson' = writeJson(sampler.style.obj)
    /\ UNCHANGED <<site, files, created, captured, pending, awaited, scroll, viewport, seq,
                   calls, task, values, settled, unlinks, colorsJson, fnVars>>

\* end done: the then of 219 runs writeStyleJSON, which calls writeJson
SamplerEndDone ==
    /\ sampler.pc = "end"
    /\ sampler' = [sampler EXCEPT !.pc = "done"]
    /\ cssJson' = writeJson(sampler.style.obj)
    /\ UNCHANGED <<site, files, created, captured, pending, awaited, scroll, viewport, seq,
                   calls, task, values, settled, unlinks, colorsJson, fnVars>>

\* an operation of the style session fails: writeStyleJSON is never called
SamplerFail ==
    /\ sampler.pc \in {"goto", "evaluate", "end"}
    /\ sampler' = [sampler EXCEPT !.pc = "aborted"]
    /\ UNCHANGED <<site, files, created, captured, pending, awaited, scroll, viewport, seq,
                   calls, task, values, settled, unlinks, colorsJson, cssJson, fnVars>>

WriteCssDone ==
    \E err \in BOOLEAN :
        /\ cssJson # Null
        /\ cssJson.st = "writing"
        /\ cssJson' = [cssJson EXCEPT !.st = IF err THEN "error" ELSE "written"]
        /\ UNCHANGED <<site, files, created, captured, pending, awaited, scroll, viewport, seq,
                       calls, task, values, settled, unlinks, colorsJson, sampler, fnVars>>

Next ==
    \/ GotoDone
    \/ BodyRectDone
    \/ ViewportDone
    \/ WaitDone
    \/ InjectDone
    \/ EvaluateDone
    \/ ScrollToDone
    \/ ScreenshotDone
    \/ EndDone
    \/ BrowserFail
    \/ promiseAllRelevantColors
    \/ StatDone
    \/ UnlinkDone
    \/ GetColorsDone
    \/ promiseAllThen
    \/ WriteColorsDone
    \/ SamplerGotoDone
    \/ SamplerEvaluateDone
    \/ SamplerEndDone
    \/ SamplerFail
    \/ WriteCssDone

Spec == Init /\ [][Next]_vars

\* The event loop runs every callback that is ready: the then of a settled
\* promise, and the callbacks of fs.stat, getColors and fs.writeFile once
\* these have finished.  The operations of the two browser sessions have no
\* timeout: the screenshot session's may never complete; the style
\* session's are taken to complete unless they fail.
Fairness ==
    /\ WF_vars(promiseAllRelevantColors)
    /\ WF_vars(StatDone)
    /\ WF_vars(GetColorsDone)
    /\ WF_vars(promiseAllThen)
    /\ WF_vars(WriteColorsDone)
    /\ WF_vars(SamplerGotoDone)
    /\ WF_vars(SamplerEvaluateDone)
    /\ WF_vars(SamplerEndDone)
    /\ WF_vars(WriteCssDone)

\* the runs checked for what eventually happens: those on the sites without
\* an AMD loader whose content fits their body (neither changes which
\* callbacks the fan-out and the style session wait for)
InitLive ==
    /\ Init
    /\ ~site.amd
    /\ ~site.overflow

SpecLive == InitLive /\ [][Next]_vars /\ Fairness

(***************************************************************************)
(* The functions called on their own: getBoundingRectangle and             *)
(* scrapeStyles on enumerated documents, buildUrlFileName on enumerated    *)
(* urls.  fn is the function called ("none" before the call), arg its      *)
(* input, ret its output; picked is the element getBoundingRectangle's     *)
(* loop ended on.                                                          *)
(***************************************************************************)
\* the catalogs handed to them: config.tags from its first and from its
\* second group on
FnCatalogs ==
    {SubSeq(tags, k, Min(k + MaxFnTags - 1, Len(tags))) : k \in 1..2}

FnTags == UNION {Range(c) : c \in FnCatalogs}

\* the first two selectors of every group of the catalog, and a word no
\* group selects
FnWords ==
    UNION {{SelectorList(t)[k][1] : k \in 1..Min(2, Len(SelectorList(t)))} :
           t \in FnTags} \cup {"div"}

Shape(word, vis) == [matches |-> {word}, visible |-> vis]

SeqsUpTo(S, n) == UNION {[1..k -> S] : k \in 0..n}

\* an element of shape sh at position i: its computed style tells i
ElementAt(sh, i) ==
    [matches |-> sh.matches, visible |-> sh.visible,
     left |-> 0, top |-> 0, width |-> 200, height |-> 100, padding |-> NoPadding,
     style |-> [p \in {props[k] : k \in DOMAIN props} |-> <<p, i>>]]

\* documents: a body, then up to maxDom elements that are no body
FnDocs(maxDom) ==
    {[i \in 1..(Len(rest) + 1) |->
        IF i = 1 THEN ElementAt(Shape("body", bodyVis), 1)
        ELSE ElementAt(rest[i - 1], i)] :
     bodyVis \in BOOLEAN,
     rest \in SeqsUpTo({Shape(w, v) : w \in FnWords \ {"body"}, v \in BOOLEAN}, maxDom)}

\* a body alone, of varied geometry
GeoDocs ==
    {<< [matches |-> {"body"}, visible |-> TRUE,
         left |-> l, top |-> t, width |-> w, height |-> h,
         padding |-> [left |-> Px(pl), right |-> Px(pr), top |-> Px(pt),
                      bottom |-> Px(pb)],
         style |-> [p \in {props[k] : k \in DOMAIN props} |-> <<p, 1>>]] >> :
     l \in {0, 5}, t \in {0, 5}, w \in {200, 7}, h \in {100, 7},
     pl \in {0, 3, 10}, pr \in {0, 3, 10}, pt \in {0, 3, 10}, pb \in {0, 3, 10}}

\* urls: a scheme, a host that starts with a letter, and what follows
FnUrls(maxLen) ==
    {(scheme \o <<"a">>) \o rest : scheme \in {Http, Https},
                                   rest \in SeqsUpTo({"a", "/", "-"}, maxLen)}

\* selector groups: the catalog's, and the groups made of a word followed by
\* words, spaces and commas
FnGroups(maxGroup) ==
    FnTags \cup {<<"a">> \o rest : rest \in SeqsUpTo({"b", " ", ","}, maxGroup)}

FnArgs(maxDom, maxLen) ==
    {[f |-> "getBoundingRectangle",
      page |-> [doc |-> d, amd |-> a, scroll |-> [x |-> 0, y |-> 0]], tag |-> t] :
        d \in FnDocs(maxDom), a \in BOOLEAN, t \in FnTags}
    \cup
    {[f |-> "getBoundingRectangle",
      page |-> [doc |-> d, amd |-> FALSE, scroll |-> sc], tag |-> tags[1]] :
        d \in GeoDocs, sc \in {[x |-> 0, y |-> 0], [x |-> 3, y |-> 8]}}
    \cup
    {[f |-> "scrapeStyles", doc |-> d, config |-> [tags |-> c, props |-> props]] :
        d \in FnDocs(maxDom), c \in FnCatalogs}
    \cup
    {[f |-> "buildUrlFileName", url |-> u] : u \in FnUrls(maxLen)}
    \cup
    {[f |-> "buildTagSafe", tag |-> g] : g \in FnGroups(MaxGroupLen)}

FnInit ==
    /\ site = [regions |-> [i \in 1..N |-> "visible"], amd |-> FALSE, overflow |-> FALSE]
    /\ files = [p \in Paths |-> "none"]
    /\ RunInit
    /\ fn = "none"
    /\ arg \in FnArgs(MaxDom, MaxUrlLen)
    /\ ret = Null
    /\ picked = 0

CallGetBoundingRectangle ==
    /\ fn = "none"
    /\ arg.f = "getBoundingRectangle"
    /\ fn' = arg.f
    /\ ret' = [out |-> getBoundingRectangle(arg.page, arg.tag)]
    /\ picked' = resolveElement(arg.page, arg.tag)
    /\ UNCHANGED <<runVars, arg>>

CallScrapeStyles ==
    /\ fn = "none"
    /\ arg.f = "scrapeStyles"
    /\ fn' = arg.f
    /\ ret' = [out |-> scrapeStyles(arg.doc, arg.config)]
    /\ UNCHANGED <<runVars, arg, picked>>

\* crawler.js 445-447
CallBuildUrlFileName ==
    /\ fn = "none"
    /\ arg.f = "buildUrlFileName"
    /\ fn' = arg.f
    /\ ret' = [out |-> buildUrlFileName(arg.url),
               dir |-> <<".", "/", "data", "/">> \o buildUrlFileName(arg.url)]
    /\ UNCHANGED <<runVars, arg, picked>>

\* buildTagSafe( tag ) as getScreenshot and promiseRelevantColors use it: in
\* the screenshot's path (172-181) and in the tag of the task's result, the
\* key of the colors mapping (254-268, 405)
CallBuildTagSafe ==
    /\ fn = "none"
    /\ arg.f = "buildTagSafe"
    /\ fn' = arg.f
    /\ ret' = [out |-> buildTagSafe(arg.tag),
               path |-> PathOf(buildTagSafe(arg.tag)),
               key |-> onColors(buildTagSafe(arg.tag),
                                [type |-> "object", list |-> Swatches("new")]).value.tag]
    /\ UNCHANGED <<runVars, arg, picked>>

FnNext ==
    \/ CallGetBoundingRectangle
    \/ CallScrapeStyles
    \/ CallBuildUrlFileName
    \/ CallBuildTagSafe

SpecFn == FnInit /\ [][FnNext]_vars

(***************************************************************************)
(* Properties of the functions called on their own, under SpecFn.          *)
(***************************************************************************)
\* the url of a call without its scheme: the enumerated urls start with it
UrlRest(u) == SubSeq(u, (IF u[5] = "s" THEN Len(Https) ELSE Len(Http)) + 1, Len(u))

EndsInHyphen(str) == Len(str) > 0 /\ str[Len(str)] = "-"

Hyphenated(str) == [k \in DOMAIN str |-> IF str[k] = "/" THEN "-" ELSE str[k]]

\* C8 as stated: buildUrlFileName returns the url with its scheme removed and
\* every slash replaced by a hyphen, trailing hyphens apart, and the result
\* never ends in a hyphen; the run directory is ./data/ followed by it.
C8_NeverEndsInHyphen ==
    fn = "buildUrlFileName" =>
        LET full == Hyphenated(UrlRest(arg.url))
        IN  /\ ~EndsInHyphen(ret.out)
            /\ Len(ret.out) <= Len(full)
            /\ SubSeq(full, 1, Len(ret.out)) = ret.out
            /\ \A k \in (Len(ret.out) + 1)..Len(full) : full[k] = "-"
            /\ ret.dir = <<".", "/", "data", "/">> \o ret.out

Whole(h) == h % 2 = 0

\* C9: for a resolved element whose layout rectangle and paddings are whole
\* pixels, the BoundingRect's width is rect.width + padding-left +
\* padding-right, its height rect.height + padding-top + padding-bottom, and
\* its x, y are the floors of the raw rectangle's left and top.
C9_PaddedRect ==
    (fn = "getBoundingRectangle" /\ picked # 0) =>
        LET el == arg.page.doc[picked]
            left == el.left - arg.page.scroll.x
            top == el.top - arg.page.scroll.y
            pad == el.padding
            r == ret.out
        IN  /\ 2 * r.x <= left /\ left < 2 * r.x + 2
            /\ 2 * r.y <= top /\ top < 2 * r.y + 2
            /\ (/\ Whole(left) /\ Whole(top) /\ Whole(el.width) /\ Whole(el.height)
                /\ Whole(pad.left.num) /\ Whole(pad.right.num)
                /\ Whole(pad.top.num) /\ Whole(pad.bottom.num))
               => /\ 2 * r.width = el.width + pad.left.num + pad.right.num
                  /\ 2 * r.height = el.height + pad.top.num + pad.bottom.num
                  /\ 2 * r.x = left
                  /\ 2 * r.y = top

\* a 100px by 50px element with padding 5px left and right gives 110 by 50
C9_Witness ==
    /\ fn = "getBoundingRectangle"
    /\ picked # 0
    /\ LET el == arg.page.doc[picked]
       IN  /\ el.width = 200 /\ el.height = 100
           /\ el.padding = [left |-> Px(10), right |-> Px(10), top |-> Px(0),
                            bottom |-> Px(0)]
           /\ el.left - arg.page.scroll.x = 0
           /\ el.top - arg.page.scroll.y = 0
    /\ ret.out = [x |-> 0, y |-> 0, width |-> 110, height |-> 50]

\* the elements of a document that satisfy the k-th selector of a group
MatchingAt(doc, tag, k) ==
    {i \in DOMAIN doc : SelectorList(tag)[k][1] \in doc[i].matches}

Matching(doc, tag) ==
    UNION {MatchingAt(doc, tag, k) : k \in DOMAIN SelectorList(tag)}

Least(S) == CHOOSE m \in S : \A j \in S : m <= j

\* C5 as stated: getBoundingRectangle's search returns the first element, in
\* selector-list order and then document order, that is matched and visible,
\* and null exactly when no matched element of the group is visible.
C5_FirstVisibleInListOrder ==
    fn = "getBoundingRectangle" =>
        LET doc == arg.page.doc
            visibleAt(k) == {i \in MatchingAt(doc, arg.tag, k) : doc[i].visible}
            ks == {k \in DOMAIN SelectorList(arg.tag) : visibleAt(k) # {}}
        IN  IF ks = {}
            THEN picked = 0 /\ ret.out = Null
            ELSE picked = Least(visibleAt(Least(ks))) /\ ret.out # Null

\* C6 as stated: on a page with an AMD loader, where checkVisible answers
\* with a promise, an element whose visibility outcome is false is never
\* chosen and never gets a BoundingRect.
C6_AwaitsVisibility ==
    (fn = "getBoundingRectangle" /\ arg.page.amd) =>
        /\ picked # 0 => arg.page.doc[picked].visible
        /\ ret.out # Null => \E i \in Matching(arg.page.doc, arg.tag) :
                                arg.page.doc[i].visible

\* the style entry scrapeStyles builds from an element
StyleOf(el, cfg) == [k \in DOMAIN cfg.props |-> <<cfg.props[k], el.style[cfg.props[k]]>>]

\* C10 as stated: the StyleRecord holds a region, under its raw key, exactly
\* when the region's first selector matches an element; a region whose first
\* selector matches nothing is omitted even if a later selector matches.
C10_FirstSelectorOnly ==
    fn = "scrapeStyles" =>
        \A i \in DOMAIN arg.config.tags :
            HasKey(ret.out, arg.config.tags[i])
                <=> MatchingAt(arg.doc, arg.config.tags[i], 1) # {}

\* C10, amended: the StyleRecord holds a region, under its raw selector-group
\* key and with every PropertySpec property, exactly when some selector of
\* the region's group matches at least one element; the values are those of
\* the first such element in document order.  A region is omitted only when
\* no selector of its group matches.
C10_AnySelectorOfGroup ==
    fn = "scrapeStyles" =>
        /\ \A j \in DOMAIN ret.out :
              \E i \in DOMAIN arg.config.tags : ret.out[j][1] = arg.config.tags[i]
        /\ \A i \in DOMAIN arg.config.tags :
              LET tag == arg.config.tags[i]
                  els == Matching(arg.doc, tag)
              IN  /\ HasKey(ret.out, tag) <=> els # {}
                  /\ els # {} =>
                        Get(ret.out, tag) = StyleOf(arg.doc[Least(els)], arg.config)

\* a document whose only header is an element with id header
C10_Witness ==
    /\ fn = "scrapeStyles"
    /\ \E i \in DOMAIN arg.config.tags :
          LET tag == arg.config.tags[i]
          IN  /\ Len(SelectorList(tag)) >= 2
              /\ MatchingAt(arg.doc, tag, 1) = {}
              /\ MatchingAt(arg.doc, tag, 2) # {}
              /\ HasKey(ret.out, tag)
              /\ Len(Get(ret.out, tag)) = Len(props)

\* C4 as stated: the StyleRecord omits the key of every region whose selector
\* group matches no visible element.
C4_OmitsInvisibleRegions ==
    fn = "scrapeStyles" =>
        \A i \in DOMAIN arg.config.tags :
            (\A e \in Matching(arg.doc, arg.config.tags[i]) : ~arg.doc[e].visible)
                => ~HasKey(ret.out, arg.config.tags[i])

\* C4, amended: the StyleRecord omits the key of every region whose selector
\* group matches no element, visible or not: for a catalog [A, B, C] where
\* only B matches an element, the StyleRecord has exactly one entry, B.
C4_OmitsUnmatchedRegions ==
    fn = "scrapeStyles" =>
        LET matched == {i \in DOMAIN arg.config.tags :
                           Matching(arg.doc, arg.config.tags[i]) # {}}
        IN  /\ \A i \in DOMAIN arg.config.tags :
                  i \notin matched => ~HasKey(ret.out, arg.config.tags[i])
            /\ \A b \in DOMAIN arg.config.tags :
                  matched = {b} => Keys(ret.out) = << arg.config.tags[b] >>

\* in a catalog of three, only the second region is matched, by a hidden element
C4_Witness ==
    /\ fn = "scrapeStyles"
    /\ Len(arg.config.tags) = 3
    /\ Matching(arg.doc, arg.config.tags[1]) = {}
    /\ Matching(arg.doc, arg.config.tags[3]) = {}
    /\ Matching(arg.doc, arg.config.tags[2]) # {}
    /\ \A e \in Matching(arg.doc, arg.config.tags[2]) : ~arg.doc[e].visible
    /\ Keys(ret.out) = << arg.config.tags[2] >>

(***************************************************************************)
(* Properties of the run, under Spec.                                      *)
(***************************************************************************)
RegionOps == {"evaluate", "scrollTo", "screenshot"}

\* the tagSafe and the screenshot path of catalog region i (1-based)
TagSafeOf(i) == buildTagSafe(Catalog[i])

RegionPath(i) == PathOf(TagSafeOf(i))

\* C1: no operation of region i+1 (evaluate, scrollTo, screenshot) is issued
\* before every operation issued for region i has completed, and at most
\* one region's capture is in flight on the session at any time.
C1_SequentialCapture ==
    /\ \A o1, o2 \in pending :
          (o1.op \in RegionOps /\ o2.op \in RegionOps) => o1 = o2
    /\ \A p \in DOMAIN calls :
          (calls[p].ev = "issue" /\ calls[p].op \in RegionOps /\ calls[p].count >= 1) =>
              \A q \in 1..(p - 1) :
                  (/\ calls[q].ev = "issue"
                   /\ calls[q].op \in RegionOps
                   /\ calls[q].count = calls[p].count - 1) =>
                      \E r \in (q + 1)..(p - 1) :
                          /\ calls[r].ev = "done"
                          /\ calls[r].op = calls[q].op
                          /\ calls[r].count = calls[q].count

\* region 0 was captured and region 1 is being captured
C1_Witness ==
    /\ \E q \in DOMAIN calls :
          calls[q] = [op |-> "screenshot", count |-> 0, ev |-> "done"]
    /\ \E o \in pending : o.op = "screenshot" /\ o.count = 1

\* the catalog position of the region whose tagSafe is k
PositionOf(k) == CHOOSE i \in 1..N : TagSafeOf(i) = k

\* C2: whatever the order in which the extraction tasks complete, the colors
\* mapping lists the regions that produced a non-null result, those whose
\* file has content, in catalog order.
C2_CatalogOrder ==
    colorsJson # Null =>
        LET keys == Keys(colorsJson.text.json)
        IN  /\ \A a \in DOMAIN keys : \E i \in 1..N : keys[a] = TagSafeOf(i)
            /\ \A a, b \in DOMAIN keys :
                  a < b => PositionOf(keys[a]) < PositionOf(keys[b])
            /\ \A i \in 1..N :
                  HasKey(colorsJson.text.json, TagSafeOf(i))
                      <=> files[RegionPath(i)] \in {"old", "new"}
            /\ \A i \in 1..N :
                  HasKey(colorsJson.text.json, TagSafeOf(i)) =>
                      Get(colorsJson.text.json, TagSafeOf(i))
                          = [k \in DOMAIN Swatches(files[RegionPath(i)]) |->
                                rgb(Swatches(files[RegionPath(i)])[k])]

\* the second task resolved with colors before the first, and both are listed
C2_Witness ==
    /\ colorsJson # Null
    /\ Len(settled) >= 2
    /\ settled[1] = 2
    /\ settled[2] = 1
    /\ Keys(colorsJson.text.json) = << TagSafeOf(1), TagSafeOf(2) >>

\* whether region i has a visible element on the site
HasVisible(i) == site.regions[i] = "visible"

\* C3 as stated: when a region's selector group matches no visible element,
\* the run creates no screenshot file for the region and the colors mapping
\* it writes has no key for the region, also when the directory holds files
\* of an earlier run.
C3_AbsentRegionLeavesNoTrace ==
    \A i \in 1..N :
        ~HasVisible(i) =>
            /\ RegionPath(i) \notin created
            /\ colorsJson # Null => ~HasKey(colorsJson.text.json, TagSafeOf(i))

\* C7: a task that stats a file of size zero resolves with null and unlinks
\* the file, which is then gone; a task that stats a missing file resolves
\* with null and unlinks nothing; neither region gets a key in the colors
\* mapping.
C7_ZeroSizeCleanup ==
    /\ [][\A i \in 1..N :
            (task[i] = "stat" /\ task'[i] # "stat") =>
                /\ files[RegionPath(i)] = "zero" =>
                      /\ task'[i] = "resolved"
                      /\ values'[i] = Null
                      /\ unlinks' = unlinks \cup {RegionPath(i)}
                /\ files[RegionPath(i)] = "none" =>
                      /\ task'[i] = "resolved"
                      /\ values'[i] = Null
                      /\ unlinks' = unlinks
                      /\ files' = files]_vars
    /\ [][\A path \in unlinks : path \notin unlinks' => files'[path] = "none"]_vars
    /\ [](\A i \in 1..N :
            (task[i] = "resolved" /\ values[i] = Null /\ colorsJson # Null)
                => ~HasKey(colorsJson.text.json, TagSafeOf(i)))

\* a zero-size file was stat'ed, unlinked and is gone, and colors.json is
\* written without its region
C7_Witness ==
    \E i \in 1..N :
        /\ \E q \in DOMAIN calls :
              calls[q] = [op |-> "screenshot", count |-> i - 1, ev |-> "done"]
        /\ task[i] = "resolved"
        /\ values[i] = Null
        /\ files[RegionPath(i)] = "none"
        /\ colorsJson # Null
        /\ ~HasKey(colorsJson.text.json, TagSafeOf(i))

\* the operations whose failure is a failure of the navigation, of an in-page
\* evaluation or of a capture
FailableOps == {"goto", "bodyRect", "evaluate", "scrollTo", "screenshot"}

\* C11 as stated: once the navigation, an in-page evaluation or a capture of
\* the screenshot session has failed, the sequencing promise is rejected, no
\* further operation is issued on the session and the fan-out is not started.
C11_FailureRejectsSequencing ==
    \A p \in DOMAIN calls :
        (calls[p].ev = "error" /\ calls[p].op \in FailableOps) =>
            /\ seq = "rejected"
            /\ p = Len(calls)
            /\ \A i \in 1..N : task[i] = "none"

\* what the run does after such a failure: nothing more on the session, no
\* fan-out, and the sequencing promise left pending
FailureStallsSequencing ==
    \A p \in DOMAIN calls :
        (calls[p].ev = "error" /\ calls[p].op \in FailableOps) =>
            /\ seq = "pending"
            /\ p = Len(calls)
            /\ pending = {}
            /\ \A i \in 1..N : task[i] = "none"

\* C12: the fan-out starts only after the last catalog region was processed
\* and the session's end has completed: while an extraction task exists no
\* operation of the session is in flight, and the tasks are launched
\* together, once, one per catalog entry.
C12_FanOutAfterLastCapture ==
    /\ []((\E i \in 1..N : task[i] # "none") =>
            /\ pending = {}
            /\ seq = "resolved"
            /\ \E q \in DOMAIN calls :
                  calls[q] = [op |-> "evaluate", count |-> N - 1, ev |-> "done"]
            /\ calls[Len(calls)] = [op |-> "end", count |-> N - 1, ev |-> "done"]
            /\ \A p \in DOMAIN calls :
                  calls[p].ev = "issue" =>
                      \E q \in (p + 1)..Len(calls) :
                          /\ calls[q].ev = "done"
                          /\ calls[q].op = calls[p].op
                          /\ calls[q].count = calls[p].count
            /\ \A i \in 1..N : task[i] # "none")
    /\ [][(\E i \in 1..N : task[i] = "none" /\ task'[i] # "none") =>
            \A i \in 1..N : task[i] = "none" /\ task'[i] = "stat"]_vars
    /\ [][\A i \in 1..N : task[i] # "none" => task'[i] # "none"]_vars

\* the last region was captured, the session has ended and a task has
\* stat'ed its file while another has yet to
C12_Witness ==
    /\ \E q \in DOMAIN calls :
          calls[q] = [op |-> "screenshot", count |-> N - 1, ev |-> "done"]
    /\ \E i, j \in 1..N : task[i] = "stat" /\ task[j] \notin {"none", "stat"}

\* the element of the page the screenshot session resolves region i to
ElementOf(i) ==
    Document(site)[querySelectorAll(Document(site), Catalog[i])[1]]

\* the padded box of an element, in half pixels of the page
PaddedBox(el) ==
    [type |-> "area", x |-> 2 * floor(el.left), y |-> 2 * floor(el.top),
     width |-> 2 * floor(el.width + 2 * parseInt(el.padding.left)
                                  + 2 * parseInt(el.padding.right)),
     height |-> 2 * floor(el.height + 2 * parseInt(el.padding.top)
                                    + 2 * parseInt(el.padding.bottom))]

\* a screenshot shows the padded box of its region's element
CropCoincides ==
    \A i \in 1..N :
        captured[RegionPath(i)] # Null =>
            captured[RegionPath(i)] = PaddedBox(ElementOf(i))

\* C13 as stated: the screenshot of a region is issued after its
\* scrollTo( rect.y, rect.x ) completed, the scroll has left the top-left of
\* the region's element at the origin of the viewport, whatever the scroll
\* position before, and the screenshot clipped to the rect shows the padded
\* box of the region's element.
C13_ScrollThenCropCoincides ==
    /\ \A p \in DOMAIN calls :
          (calls[p].ev = "issue" /\ calls[p].op = "screenshot") =>
              /\ p > 1
              /\ calls[p - 1] = [op |-> "scrollTo", count |-> calls[p].count, ev |-> "done"]
    /\ \A o \in pending :
          o.op = "screenshot" =>
              /\ 2 * floor(ElementOf(o.count + 1).left) - scroll.x = 0
              /\ 2 * floor(ElementOf(o.count + 1).top) - scroll.y = 0
    /\ CropCoincides

\* on a site whose content does not overflow its body the page cannot
\* scroll, and every screenshot shows its region's element
CropCoincidesWithoutScroll ==
    ~site.overflow => (scroll = [x |-> 0, y |-> 0] /\ CropCoincides)

\* colors.json has been written, or its write has failed on the disk
ColorsWriteOver == colorsJson # Null /\ colorsJson.st \in {"written", "error"}

\* C14: once the sequencing promise has resolved, colors.json is eventually
\* written, unless an extraction called back without colors (or the disk
\* refused the write); missing and zero-size files do not prevent it, and the
\* mapping written has a key for exactly the regions whose file has content.
C14_ColorsEventuallyWritten ==
    /\ (seq = "resolved") ~> (ColorsWriteOver \/ \E i \in 1..N : task[i] = "hung")
    /\ [](colorsJson # Null =>
            /\ \A i \in 1..N :
                  HasKey(colorsJson.text.json, TagSafeOf(i))
                      <=> files[RegionPath(i)] \in {"old", "new"}
            /\ Len(colorsJson.text.json)
                  = Cardinality({i \in 1..N : files[RegionPath(i)] \in {"old", "new"}}))

\* colors.json is written with a region whose file has content, while
\* another region's file was missing or of size zero
C14_Witness ==
    /\ colorsJson # Null
    /\ colorsJson.st = "written"
    /\ \E i, j \in 1..N :
          /\ values[i] = Null
          /\ files[RegionPath(i)] = "none"
          /\ files[RegionPath(j)] = "new"
          /\ HasKey(colorsJson.text.json, TagSafeOf(j))

\* C15: when getColors calls back without colors for a region's file, the
\* region's promise is left pending for ever, the then of Promise.all never
\* runs and colors.json is not written in that run, whatever the other
\* regions' extractions returned; a promise the callback settles is resolved
\* with the region's colors.
C15_NoDataHangsFanOut ==
    /\ [][\A i \in 1..N :
            (task[i] = "getColors" /\ task'[i] # "getColors") =>
                \/ /\ task'[i] = "resolved"
                   /\ values'[i] \notin {Null, Undefined}
                   /\ values'[i].tag = TagSafeOf(i)
                \/ /\ task'[i] = "hung"
                   /\ values'[i] = Undefined]_vars
    /\ [][\A i \in 1..N :
            task[i] = "hung" => (task'[i] = "hung" /\ values'[i] = Undefined)]_vars
    /\ []((\E i \in 1..N : task[i] = "hung") => colorsJson = Null)

\* one region's extraction came back without colors after another's had
\* resolved with colors
C15_Witness ==
    /\ colorsJson = Null
    /\ \E i, j \in 1..N :
          /\ task[i] = "hung"
          /\ task[j] = "resolved"
          /\ values[j] \notin {Null, Undefined}

\* the styles of the regions of a site that have an element, in catalog
\* order from region i on
RECURSIVE CssFrom(_, _)
CssFrom(s, i) ==
    IF i > N THEN << >>
    ELSE (IF s.regions[i] = "absent" THEN << >>
          ELSE << <<Catalog[i],
                    StyleOf(RegionElement(i, s.regions[i] = "visible"), config)>> >>)
         \o CssFrom(s, i + 1)

\* the state of the screenshot-then-color pipeline, and of the style pipeline
colorVars == <<files, created, captured, pending, awaited, scroll, viewport, seq,
               calls, task, values, settled, unlinks, colorsJson>>

styleVars == <<sampler, cssJson>>

\* C16: the two pipelines do not interfere.  Whatever the interleaving of
\* their steps, the text written to css.json is the styles of the page's
\* regions in catalog order; no step of one pipeline changes the state of the
\* other; and css.json is eventually written unless the style session itself
\* fails, also when the screenshot session hangs or fails.
C16_PipelinesIndependent ==
    /\ [](cssJson # Null => cssJson.text = JSONstringify(CssFrom(site, 1)))
    /\ [][styleVars' # styleVars => colorVars' = colorVars]_vars
    /\ [][colorVars' # colorVars => styleVars' = styleVars]_vars
    /\ <>(\/ sampler.pc = "aborted"
          \/ (cssJson # Null /\ cssJson.st \in {"written", "error"}))

\* css.json is written although an operation of the screenshot session
\* failed before the first region was resolved
C16_Witness ==
    /\ cssJson # Null
    /\ cssJson.st = "written"
    /\ seq = "pending"
    /\ pending = {}
    /\ calls[Len(calls)].ev = "error"
    /\ calls[Len(calls)].count = -1

\* the calls of the setup, from the navigation to the end of the injection
SetupCalls ==
    << [op |-> "goto", count |-> -1, ev |-> "issue"],
       [op |-> "goto", count |-> -1, ev |-> "done"],
       [op |-> "bodyRect", count |-> -1, ev |-> "issue"],
       [op |-> "bodyRect", count |-> -1, ev |-> "done"],
       [op |-> "viewport", count |-> -1, ev |-> "issue"],
       [op |-> "viewport", count |-> -1, ev |-> "done"],
       [op |-> "wait", count |-> -1, ev |-> "issue"],
       [op |-> "wait", count |-> -1, ev |-> "done"],
       [op |-> "inject", count |-> -1, ev |-> "issue"],
       [op |-> "inject", count |-> -1, ev |-> "done"] >>

\* C17: before the first operation of a region is issued, the session has
\* completed, one after the other, the navigation, the measure of the body,
\* the viewport change, the wait and the injection, and the viewport is the
\* whole pixels of the body's width by those of its height plus 22; the
\* evaluate of region 0 is the call that follows the injection's end.
C17_SetupBeforeFirstRegion ==
    /\ Len(calls) <= Len(SetupCalls) =>
          \A p \in DOMAIN calls :
              /\ calls[p].count = -1
              /\ calls[p] = SetupCalls[p] \/ (calls[p].ev = "error" /\ p = Len(calls))
    /\ Len(calls) > Len(SetupCalls) =>
          /\ SubSeq(calls, 1, Len(SetupCalls)) = SetupCalls
          /\ calls[Len(SetupCalls) + 1] = [op |-> "evaluate", count |-> 0, ev |-> "issue"]
          /\ \A p \in (Len(SetupCalls) + 1)..Len(calls) : calls[p].count >= 0
          /\ viewport = [width |-> Document(site)[1].width \div 2,
                         height |-> Document(site)[1].height \div 2 + 22]
    /\ viewport # Null =>
          /\ Len(calls) >= 6
          /\ calls[6] = [op |-> "viewport", count |-> -1, ev |-> "done"]

\* the evaluate of region 0 is in flight, in a viewport of the body's size
\* plus 22
C17_Witness ==
    /\ Op("evaluate", 0, Null) \in pending
    /\ viewport # Null
    /\ viewport.height = Document(site)[1].height \div 2 + 22

\* the screenshots the session has completed
ScreenshotsDone ==
    {p \in DOMAIN calls : calls[p].op = "screenshot" /\ calls[p].ev = "done"}

\* buildTagSafe, and the path made of it, tell the groups of config.tags apart
TagSafeInjective ==
    \A i, j \in DOMAIN tags :
        i # j => /\ buildTagSafe(tags[i]) # buildTagSafe(tags[j])
                 /\ PathOf(buildTagSafe(tags[i])) # PathOf(buildTagSafe(tags[j]))

\* C18: distinct entries of the catalog (the whole of config.tags) have
\* distinct tagSafes and so distinct screenshot paths: every screenshot of
\* the run writes a file of its own, and the tasks of the fan-out, which run
\* concurrently, stat, read and unlink different files.
C18_DistinctPaths ==
    /\ TagSafeInjective
    /\ \A i, j \in 1..N : i # j => pathOf[config.tags[i]] # pathOf[config.tags[j]]
    /\ Cardinality(created) = Cardinality(ScreenshotsDone)
    /\ Cardinality(unlinks) <= Cardinality({i \in 1..N : task[i] = "resolved"})

\* two regions were captured, each to its file, and their tasks are both
\* about to stat
C18_Witness ==
    /\ Cardinality(created) >= 2
    /\ \E i, j \in 1..N : i # j /\ task[i] = "stat" /\ task[j] = "stat"

\* the text of a group before its first comma
FirstSelectorText(tag) ==
    IF \E i \in DOMAIN tag : tag[i] = ","
    THEN SubSeq(tag, 1, (CHOOSE i \in DOMAIN tag :
                            tag[i] = "," /\ \A j \in 1..(i - 1) : tag[j] # ",") - 1)
    ELSE tag

IsNoSpace(a) == a # " "

WithoutWhitespace(str) == SelectSeq(str, IsNoSpace)

\* C19 as stated: buildTagSafe returns the text of the group before its
\* first comma with all white space removed, and this identifier is the name
\* of the region's screenshot file and the region's key in the colors
\* mapping.
C19_FirstSelectorNoWhitespace ==
    fn = "buildTagSafe" =>
        /\ ret.out = WithoutWhitespace(FirstSelectorText(arg.tag))
        /\ ret.path = (screenshotDir \o <<"/">>) \o ret.out \o <<".png">>
        /\ ret.key = ret.out

\* what buildTagSafe returns: the text before the first comma with its
\* first space replaced by a hyphen and every other atom kept, used for the
\* file name and for the key
TagSafeHyphenatesFirstSpace ==
    fn = "buildTagSafe" =>
        LET first == FirstSelectorText(arg.tag)
        IN  /\ Len(ret.out) = Len(first)
            /\ \A k \in DOMAIN first :
                  ret.out[k] = IF first[k] = " " /\ \A j \in 1..(k - 1) : first[j] # " "
                               THEN "-" ELSE first[k]
            /\ ret.path = (screenshotDir \o <<"/">>) \o ret.out \o <<".png">>
            /\ ret.key = ret.out

\* the positions of the call log where an operation op is issued
IssuesOf(op) == {p \in DOMAIN calls : calls[p].op = op /\ calls[p].ev = "issue"}

\* C20: the regions are resolved one by one from index 0 up, each at most
\* once and none beyond N-1; the session's end is requested at most once,
\* by the handlers of region N-1, when every operation issued before has
\* completed; and no evaluate, scrollTo or screenshot is issued after it.
C20_IndexAdvancesByOne ==
    /\ \A p \in IssuesOf("evaluate") :
          /\ calls[p].count \in 0..(N - 1)
          /\ calls[p].count = Cardinality({q \in IssuesOf("evaluate") : q < p})
    /\ \A op \in {"scrollTo", "screenshot"} :
          \A p \in IssuesOf(op) :
              /\ \A q \in IssuesOf(op) : q # p => calls[q].count # calls[p].count
              /\ \E q \in IssuesOf("evaluate") : q < p /\ calls[q].count = calls[p].count
    /\ Cardinality(IssuesOf("end")) <= 1
    /\ \A p \in IssuesOf("end") :
          /\ calls[p].count = N - 1
          /\ \E q \in 1..(p - 1) :
                calls[q] = [op |-> "evaluate", count |-> N - 1, ev |-> "done"]
          /\ \A q \in 1..(p - 1) :
                calls[q].ev = "issue" =>
                    \E r \in (q + 1)..(p - 1) :
                        /\ calls[r].ev = "done"
                        /\ calls[r].op = calls[q].op
                        /\ calls[r].count = calls[q].count
          /\ \A q \in (p + 1)..Len(calls) : calls[q].op = "end"

\* every region was resolved, the last one captured, and the session ended
C20_Witness ==
    /\ Cardinality(IssuesOf("evaluate")) = N
    /\ \E q \in DOMAIN calls :
          calls[q] = [op |-> "screenshot", count |-> N - 1, ev |-> "done"]
    /\ calls[Len(calls)] = [op |-> "end", count |-> N - 1, ev |-> "done"]

=============================================================================
